---- MODULE Spec2Model ----
(***************************************************************************)
(* Model of the UHC eligibility client: the OAuth token cache and          *)
(* acquisition client (UHCApiClient in src/src/lib/database.ts), the proxy *)
(* gateway (src/server.js) and the search orchestrator                     *)
(* (PatientSearchForm.handleSubmit in src/src/App.tsx).                    *)
(*                                                                         *)
(* Time is in milliseconds, as Date.now().  A JavaScript Date is a record  *)
(* [k, ms] with k = "date" (a valid instant), "invalid" (new Date(NaN)) or *)
(* "null" (the field holds null).  A bearer token is a natural number:     *)
(* 0 is null, n > 0 is the string `Bearer <access token n>`.               *)
(* A JavaScript string that may be shown as an error message is a pair     *)
(* <<encoding, text>>: <<"text", s>> is the string s itself and            *)
(* <<"json-message", s>> is the JSON text of the object {message: s}.      *)
(***************************************************************************)
EXTENDS Integers, Sequences, FiniteSets, TLC

\* ---------------------------------------------------------------- bounds
TickMs == 120000
MaxTicks == 2
MaxAccessToken == 1
ShortExpiresIn == 240
LongExpiresIn == 420

\* ------------------------------------------------------ program constants
SkewBufferMs == 5 * 60 * 1000
DefaultExpiresIn == 3600

\* ------------------------------------------------------------------ dates
NullDate == [k |-> "null", ms |-> 0]
InvalidDate == [k |-> "invalid", ms |-> 0]
Date(ms) == [k |-> "date", ms |-> ms]

\* a < b on Dates: any comparison with an Invalid Date is false
DateLT(a, b) == a.k = "date" /\ b.k = "date" /\ a.ms < b.ms
DateGE(a, b) == a.k = "date" /\ b.k = "date" /\ a.ms >= b.ms

\* localStorage items: absent, or the ISO string of an instant
NoItem == [k |-> "none", ms |-> 0]
ToISOString(d) == [k |-> "iso", ms |-> d.ms]
ParseDate(s) == IF s.k = "iso" THEN Date(s.ms) ELSE InvalidDate

\* ---------------------------------------------------------------- strings
Plain(s) == <<"text", s>>
JsonMessageText(s) == <<"json-message", s>>
NoMessage == <<"null", "">>
Truthy(m) == m # NoMessage /\ m # Plain("")

\* ------------------------------------------------------------------ state
VARIABLES
  now,            \* Date.now()
  cache,          \* UHCApiClient fields and its two localStorage entries
  pc,             \* position of handleSubmit: which await it is suspended at
  form,           \* formData of the submitted search
  isLoading,      \* PatientSearchForm state isLoading
  error,          \* PatientSearchForm state error (NoMessage = null)
  eligibilityData, coverageData, memberCardData,  \* locals of handleSubmit
  completed,      \* argument of the last onSearchComplete call of this search
  searchRecord,   \* argument of the db.savePatientSearch call of this search
  trace,          \* network events of the current search, in order
  lastTokenData,  \* data of the last 2xx token response generateToken read
  lastExt,        \* the external API's answer to the last lookup request
  lastReq,        \* the last lookup request sent: its call, its token and
                  \* whether the token met the skew rule when it was sent
  gen_pc,         \* position of TokenManager.handleGenerateToken
  currentUser,    \* AuthService.currentUser: 0 is null, n > 0 a signed-in user
  lastOp,         \* the last token cache or sign-out call that returned: its
                  \* name, result, the cache before it and how storage behaved
  dobInput,       \* the text of the Date of Birth input of the search form
  dobSent,        \* the dateOfBirth value last passed to a lookup call
  authView        \* the sign-in state around AuthService.currentUser: the
                  \* position of initializeAuth and of signOut, the session the
                  \* supabase client holds, and the user state of the
                  \* components listening to authStateChange

vars == <<now, cache, pc, form, isLoading, error, eligibilityData, coverageData,
          memberCardData, completed, searchRecord, trace, lastTokenData, lastExt,
          lastReq, gen_pc, currentUser, lastOp, dobInput, dobSent,
          authView>>

authVars == <<authView>>

dateVars == <<dobInput, dobSent>>

sessionVars == <<currentUser, lastOp>>

searchVars == <<pc, form, isLoading, error, eligibilityData, coverageData,
                memberCardData, completed, searchRecord, trace, lastExt, lastReq>>

\* ------------------------------------------------------------ token cache
EmptyCache == [token |-> 0, tokenExpires |-> NullDate,
               ls_token |-> 0, ls_expires |-> NoItem]

\* the skew rule of loadStoredToken / ensureValidToken
SkewValid(expires, t) == DateLT(Date(t + SkewBufferMs), expires)

\* mutant: only the storage entries are removed
ClearStoredToken_KeepsMemory(c) == [c EXCEPT !.ls_token = 0, !.ls_expires = NoItem]

ClearStoredToken(c) == EmptyCache

\* how localStorage behaves during a call: "ok"; "full", setItem throws;
\* "denied", every access throws
StorageModes == {"ok", "full", "denied"}

\* clearStoredToken has no try: a throwing removeItem leaves the fields as they
\* are and the exception leaves the method
ClearStoredTokenS(c, st) ==
  IF st = "denied" THEN [c |-> c, threw |-> TRUE]
  ELSE [c |-> ClearStoredToken(c), threw |-> FALSE]

\* [c |-> cache after the call, ret |-> returned boolean]
\* mutant: a stale stored token is reported but not cleared
LoadStoredToken_NoClear(c, t) ==
  IF c.ls_token # 0 /\ c.ls_expires # NoItem
  THEN LET expiresDate == ParseDate(c.ls_expires) IN
       IF SkewValid(expiresDate, t)
       THEN [c |-> [c EXCEPT !.token = c.ls_token, !.tokenExpires = expiresDate],
             ret |-> TRUE]
       ELSE [c |-> c, ret |-> FALSE]
  ELSE [c |-> c, ret |-> FALSE]

LoadStoredToken(c, t) ==
  IF c.ls_token # 0 /\ c.ls_expires # NoItem
  THEN LET expiresDate == ParseDate(c.ls_expires) IN
       IF SkewValid(expiresDate, t)
       THEN [c |-> [c EXCEPT !.token = c.ls_token, !.tokenExpires = expiresDate],
             ret |-> TRUE]
       ELSE [c |-> ClearStoredToken(c), ret |-> FALSE]
  ELSE [c |-> c, ret |-> FALSE]

\* the try block of loadStoredToken under storage mode st
LoadStoredTokenTry(c, t, st) ==
  IF st = "denied" THEN [c |-> c, ret |-> FALSE, throws |-> TRUE]
  ELSE [c |-> LoadStoredToken(c, t).c, ret |-> LoadStoredToken(c, t).ret,
        throws |-> FALSE]

\* loadStoredToken: the catch at line 274 falls through to `return false`
LoadStoredTokenS(c, t, st) ==
  LET b == LoadStoredTokenTry(c, t, st) IN
  [c |-> b.c, ret |-> ~b.throws /\ b.ret, threw |-> FALSE]

GetTokenInfoIsValid(c, t) ==
  c.token # 0 /\ c.tokenExpires # NullDate /\ DateLT(Date(t), c.tokenExpires)

\* expires_in of the token response: absent, a number of seconds, or a string
\* that is not a number
ExpiresInAbsent == [k |-> "absent", n |-> 0]
ExpiresInNum(n) == [k |-> "num", n |-> n]
ExpiresInText == [k |-> "text", n |-> 0]

\* parseInt(tokenData.expires_in || '3600')
ParseExpiresIn(e) ==
  IF e.k = "absent" \/ (e.k = "num" /\ e.n = 0) THEN [nan |-> FALSE, n |-> DefaultExpiresIn]
  ELSE IF e.k = "num" THEN [nan |-> FALSE, n |-> e.n]
  ELSE [nan |-> TRUE, n |-> 0]

\* mutant: expires_in taken as milliseconds
ExpiryOf_NoSecondsToMs(t, p) == IF p.nan THEN InvalidDate ELSE Date(t + p.n)

\* new Date(Date.now() + (expiresIn * 1000))
ExpiryOf(t, p) == IF p.nan THEN InvalidDate ELSE Date(t + p.n * 1000)

\* ---------------------------------------------------------- proxy gateway
Null == [kind |-> "null"]
\* a response body that is not JSON, and a failure envelope with no error object
NotJson == [kind |-> "not-json"]
NoErrorObject == <<"undefined", "">>

\* the try block of generateToken from the arrival of the response r of
\* POST /api/uhc/token, under storage mode st:
\* [c |-> cache when the block is left, throws, success, error]
GenerateTokenTry(c, t, r, st) ==
  IF r.net = "down"
  THEN [c |-> c, throws |-> TRUE, success |-> FALSE, error |-> Plain("Network error")]
  ELSE IF r.status >= 200 /\ r.status <= 299
  THEN IF r.data = NotJson
       THEN [c |-> c, throws |-> TRUE, success |-> FALSE,
             error |-> Plain("Network error: Unexpected token")]
       ELSE IF r.success
       THEN IF r.data = Null
            THEN [c |-> c, throws |-> TRUE, success |-> FALSE,
                  error |-> Plain("Network error: Cannot read properties")]
            ELSE
            LET tokenData == r.data
                expires == ExpiryOf(t, ParseExpiresIn(tokenData.expires_in))
                c0 == [c EXCEPT !.token = tokenData.access_token,
                                !.tokenExpires = expires]
                c1 == [c0 EXCEPT !.ls_token = tokenData.access_token]
            IN  IF st # "ok"
                \* localStorage.setItem throws at line 213
                THEN [c |-> c0, throws |-> TRUE, success |-> FALSE,
                      error |-> Plain("Network error: storage")]
                ELSE IF expires.k = "invalid"
                \* toISOString throws RangeError at line 214
                THEN [c |-> c1, throws |-> TRUE, success |-> FALSE,
                      error |-> Plain("Network error: Invalid time value")]
                ELSE [c |-> [c1 EXCEPT !.ls_expires = ToISOString(expires)],
                      throws |-> FALSE, success |-> TRUE, error |-> NoMessage]
       ELSE IF r.message = NoErrorObject
            THEN [c |-> c, throws |-> TRUE, success |-> FALSE,
                  error |-> Plain("Network error: Cannot read properties")]
            ELSE [c |-> c, throws |-> FALSE, success |-> FALSE,
                  error |-> Plain("Backend error")]
  ELSE [c |-> c, throws |-> FALSE, success |-> FALSE,
        error |-> Plain("Token generation failed")]

\* mutant: generateToken without its catch
GenerateTokenS_NoCatch(c, t, r, st) ==
  LET b == GenerateTokenTry(c, t, r, st) IN
  [c |-> b.c, success |-> b.success, error |-> b.error, threw |-> b.throws]

\* generateToken: the catch at line 237 turns every exception of the try block
\* into a success:false result
GenerateTokenS(c, t, r, st) ==
  LET b == GenerateTokenTry(c, t, r, st) IN
  [c |-> b.c, success |-> b.success, error |-> b.error, threw |-> FALSE]

\* generateToken with a working localStorage
GenerateToken(c, t, r) == GenerateTokenS(c, t, r, "ok")

\* ensureValidToken up to its first await: the cache after the synchronous
\* part and whether generateToken is called
EnsureValidToken(c, t) ==
  LET l == LoadStoredToken(c, t) IN
  IF c.token = 0 /\ ~l.ret
  THEN [c |-> l.c, generate |-> TRUE]
  ELSE LET c1 == IF c.token = 0 THEN l.c ELSE c IN
       IF c1.token = 0 \/ c1.tokenExpires = NullDate
          \/ DateGE(Date(t + SkewBufferMs), c1.tokenExpires)
       THEN [c |-> c1, generate |-> TRUE]
       ELSE [c |-> c1, generate |-> FALSE]


\* An answer of the external API as the proxy's fetch sees it: net = "down"
\* when fetch throws; isJson and json are what JSON.parse makes of the body,
\* text is the body as a string, image is a content-type containing `image`.
ExtDown == [net |-> "down", status |-> 0, isJson |-> FALSE, json |-> Null,
            text |-> Plain(""), image |-> FALSE]
ExtJson(st, v, txt) == [net |-> "ok", status |-> st, isJson |-> TRUE, json |-> v,
                        text |-> txt, image |-> FALSE]
ExtText(st, txt) == [net |-> "ok", status |-> st, isJson |-> FALSE, json |-> Null,
                     text |-> txt, image |-> FALSE]
\* the browser's fetch of the proxy threw: the external API was not asked
ExtUnreached == [net |-> "unreached", status |-> 0, isJson |-> FALSE, json |-> Null,
                 text |-> Plain(""), image |-> FALSE]
ExtImage == [net |-> "ok", status |-> 200, isJson |-> FALSE, json |-> Null,
             text |-> Plain("<bytes>"), image |-> TRUE]

\* What the browser's fetch of a proxy endpoint sees
ProxyDown == [net |-> "down", status |-> 0, success |-> FALSE, data |-> Null,
              message |-> NoMessage]
ProxyReply(st, ok, d, m) == [net |-> "ok", status |-> st, success |-> ok,
                             data |-> d, message |-> m]

IsOk(st) == st >= 200 /\ st <= 299

\* the relay shared by the token, eligibility and coverage endpoints:
\* text(), then JSON.parse on 2xx, else the error envelope; catch -> 500
ProxyRelay(ext) ==
  IF ext.net = "down" THEN ProxyReply(500, FALSE, Null, Plain("fetch failed"))
  ELSE IF IsOk(ext.status)
  THEN IF ext.isJson THEN ProxyReply(200, TRUE, ext.json, NoMessage)
       ELSE ProxyReply(500, FALSE, Null, Plain("Unexpected token in JSON"))
  ELSE ProxyReply(ext.status, FALSE, Null, ext.text)

ProxyToken(ext) == ProxyRelay(ext)

ProxyEligibility(token, ext) ==
  IF token = 0
  THEN ProxyReply(401, FALSE, Null, Plain("Authorization token is required"))
  ELSE ProxyRelay(ext)

ProxyCoverage(token, ext) ==
  IF token = 0
  THEN ProxyReply(401, FALSE, Null, Plain("Authorization token is required"))
  ELSE ProxyRelay(ext)

\* errorData.message of the member-card endpoint: the message field of a JSON
\* error body, else the body text, else the status text
ErrorDataMessage(txt) ==
  IF txt[1] = "json-message" /\ txt[2] # "" THEN Plain(txt[2])
  ELSE IF txt = Plain("") \/ txt[1] = "json-message" THEN Plain("API error: status")
  ELSE txt

\* req: the five request fields, "" when missing
ProxyMemberCard(token, req, ext) ==
  IF token = 0
  THEN ProxyReply(401, FALSE, Null, Plain("Authorization token is required"))
  ELSE IF req.transactionId = "" \/ req.memberId = "" \/ req.dateOfBirth = ""
          \/ req.payerId = "" \/ req.firstName = ""
  THEN ProxyReply(400, FALSE, Null, Plain("Missing required fields"))
  ELSE IF ext.net = "down" THEN ProxyReply(500, FALSE, Null, Plain("fetch failed"))
  ELSE IF IsOk(ext.status)
  THEN IF ext.image THEN ProxyReply(200, TRUE, [kind |-> "card-image"], NoMessage)
       ELSE IF ext.isJson THEN ProxyReply(200, TRUE, ext.json, NoMessage)
       ELSE ProxyReply(200, TRUE, [kind |-> "card-text"], NoMessage)
  ELSE ProxyReply(ext.status, FALSE, Null, ErrorDataMessage(ext.text))

\* ------------------------------------------------------ client lookups
ApiResult(ok, d, m) == [success |-> ok, data |-> d, message |-> m]

\* the response handling shared by searchEligibility, getCoverageDetails and
\* getMemberCard; fallback is the call's own default failure message
LookupResult(r, fallback) ==
  IF r.net = "down" THEN ApiResult(FALSE, Null, Plain("Network error"))
  ELSE IF IsOk(r.status)
  THEN IF r.success THEN ApiResult(TRUE, r.data, NoMessage)
       ELSE ApiResult(FALSE, Null, IF Truthy(r.message) THEN r.message ELSE fallback)
  ELSE ApiResult(FALSE, Null,
                 IF Truthy(r.message) THEN r.message ELSE Plain("API error: status"))

NoTokenResult == ApiResult(FALSE, Null, Plain("Failed to obtain valid token"))

\* ------------------------------------------------------------- inputs
AccessTokens == 1..MaxAccessToken
ExpiresIns == {ExpiresInAbsent, ExpiresInNum(ShortExpiresIn),
               ExpiresInNum(LongExpiresIn), ExpiresInText}
Messages == {"member not found"}

TokenData(a, e) == [kind |-> "token", access_token |-> a, expires_in |-> e]

\* the first policy of an eligibility response: "" is a missing field
NoPolicy == [kind |-> "eligibility", policy |-> FALSE, patientKey |-> "",
             transactionId |-> "", memberId |-> "", payerId |-> "", firstName |-> ""]
FullPolicy == [kind |-> "eligibility", policy |-> TRUE, patientKey |-> "PK1",
               transactionId |-> "TX1", memberId |-> "M1", payerId |-> "P1",
               firstName |-> "JANE"]
EligDatas ==
  {NoPolicy, FullPolicy,
   [FullPolicy EXCEPT !.patientKey = ""], [FullPolicy EXCEPT !.transactionId = ""],
   [FullPolicy EXCEPT !.memberId = ""], [FullPolicy EXCEPT !.payerId = ""],
   [FullPolicy EXCEPT !.firstName = ""],
   [FullPolicy EXCEPT !.patientKey = "", !.firstName = ""]}
CoverageDatas == {[kind |-> "coverage"]}
CardDatas == {[kind |-> "card-json"]}

\* failures of the external API: unreachable, 2xx that is not JSON, 401 with
\* an empty body, 500 with a JSON {message: M} body or with a plain text body
ExtFailures ==
  {ExtDown, ExtText(200, Plain("<html>")), ExtText(401, Plain(""))}
  \cup {ExtText(500, JsonMessageText(m)) : m \in Messages}
  \cup {ExtText(500, Plain(m)) : m \in Messages}

ExtTokenResponses ==
  {ExtJson(200, TokenData(a, e), Plain("<json>")) : a \in AccessTokens, e \in ExpiresIns}
  \cup ExtFailures
ExtEligibilityResponses ==
  {ExtJson(200, d, Plain("<json>")) : d \in EligDatas} \cup ExtFailures
ExtCoverageResponses ==
  {ExtJson(200, d, Plain("<json>")) : d \in CoverageDatas} \cup ExtFailures
ExtMemberCardResponses ==
  {ExtJson(200, d, Plain("<json>")) : d \in CardDatas} \cup {ExtImage} \cup ExtFailures

TokenResponses == {ProxyToken(x) : x \in ExtTokenResponses} \cup {ProxyDown}

Forms == [memberId : {"", "123456789"}, dateOfBirth : {"", "05/01/1980"}]

\* ------------------------------------------------------------ validation
\* SelectSeq without a higher-order argument: the names of fs whose value in
\* record r is missing, in the order of fs
RECURSIVE MissingIn(_, _)
MissingIn(r, fs) ==
  IF fs = <<>> THEN <<>>
  ELSE (IF r[Head(fs)] = "" THEN <<Head(fs)>> ELSE <<>>) \o MissingIn(r, Tail(fs))

\* handleSubmit lines 763-766: one fixed message, naming both fields, when
\* either is missing; <<>> when the form passes
SearchFormNamedFields(f) ==
  IF f.memberId = "" \/ f.dateOfBirth = ""
  THEN <<"memberId", "dateOfBirth">>
  ELSE <<>>

\* handleViewMemberCard lines 106-120: the missingFields pushed, in the
\* code's order; req holds the five values read from the eligibility data
ViewMemberCardMissingFields(req) ==
  MissingIn(req, <<"transactionId", "memberId", "payerId", "firstName", "dateOfBirth">>)

\* POST /api/uhc/member-card lines 228-244: the missingFields of the 400 reply
ProxyMemberCardMissingFields(req) ==
  MissingIn(req, <<"transactionId", "memberId", "dateOfBirth", "payerId", "firstName">>)

\* ------------------------------------------------------- date of birth
\* A date text is its pieces between separators: sep is the separator used
\* ("/" or "-") and parts the digit strings between them, each a sequence of
\* digits; NoDob is the empty string.
NoDob == [sep |-> "", parts |-> <<>>]

\* String.padStart(2, '0') on a digit string
PadStart2(d) == IF Len(d) >= 2 THEN d ELSE IF Len(d) = 1 THEN <<0>> \o d ELSE <<0, 0>>

\* dateString.split('/'): a text written with another separator is one piece
SplitOnSlash(s) == IF s.sep = "/" THEN s.parts ELSE <<s>>

\* formatDateOfBirth
FormatDateOfBirth(s) ==
  LET parts == SplitOnSlash(s) IN
  IF Len(parts) = 3
  THEN LET month == parts[1]
           day == parts[2]
           year == parts[3]
       IN  [sep |-> "-", parts |-> <<year, PadStart2(month), PadStart2(day)>>]
  ELSE s

\* ------------------------------------------------- search orchestrator
Idle == <<"idle", "">>
NoReq == [call |-> "none", token |-> 0, skewValid |-> TRUE]

\* mutants: a gate that forgets one of its fields
CoverageGate_NoPatientKey(d) == d.policy /\ d.transactionId # ""
MemberCardGate_NoFirstName(d) == d.memberId # "" /\ d.payerId # ""

\* the conditions of handleSubmit lines 804-809 and 817
CoverageGate(d) == d.policy /\ d.patientKey # "" /\ d.transactionId # ""
MemberCardGate(d) == d.memberId # "" /\ d.payerId # "" /\ d.firstName # ""

\* a lookup call up to its first await, from cache c: ensureValidToken, then
\* either the token request or the lookup request itself is sent
BeginLookup(call, c, tr) ==
  LET e == EnsureValidToken(c, now) IN
  /\ cache' = e.c
  /\ IF e.generate
     THEN /\ pc' = <<call, "token">>
          /\ trace' = Append(tr, <<call, "token", "send">>)
          /\ lastReq' = lastReq
     ELSE /\ pc' = <<call, "lookup">>
          /\ trace' = Append(tr, <<call, "lookup", "send">>)
          /\ lastReq' = [call |-> call, token |-> e.c.token,
                         skewValid |-> SkewValid(e.c.tokenExpires, now)]

\* mutant: the record is built without the coverage data
BeginSave_NoCoverage(c, tr) ==
  /\ cache' = c
  /\ pc' = <<"save", "db">>
  /\ trace' = Append(tr, <<"save", "db", "send">>)
  /\ searchRecord' = [kind |-> "record", eligibility_data |-> eligibilityData',
                      coverage_data |-> Null, member_card_data |-> memberCardData']
  /\ UNCHANGED lastReq

\* lines 832-843: searchRecord is built from the three results (already
\* assigned by the caller) and db.savePatientSearch is called
BeginSave(c, tr) ==
  /\ cache' = c
  /\ pc' = <<"save", "db">>
  /\ trace' = Append(tr, <<"save", "db", "send">>)
  /\ searchRecord' = [kind |-> "record", eligibility_data |-> eligibilityData',
                      coverage_data |-> coverageData',
                      member_card_data |-> memberCardData']
  /\ UNCHANGED lastReq

\* mutant: the catch without the finally that resets isLoading
FailSearch_NoFinally(m, c, tr) ==
  /\ error' = m
  /\ isLoading' = isLoading
  /\ cache' = c
  /\ pc' = Idle
  /\ trace' = Append(tr, <<"search", "end", "failed">>)
  /\ UNCHANGED <<lastReq, eligibilityData, coverageData, memberCardData, completed,
                 searchRecord>>

\* lines 857-862: the catch and finally of handleSubmit
FailSearch(m, c, tr) ==
  /\ error' = m
  /\ isLoading' = FALSE
  /\ cache' = c
  /\ pc' = Idle
  /\ trace' = Append(tr, <<"search", "end", "failed">>)
  /\ UNCHANGED <<lastReq, eligibilityData, coverageData, memberCardData, completed,
                 searchRecord>>

\* mutant: a failed member-card lookup ends the search before the save
AfterMemberCard_FailureSkipsSave(res, c, tr) ==
  IF ~res.success
  THEN /\ memberCardData' = Null
       /\ isLoading' = FALSE
       /\ cache' = c
       /\ pc' = Idle
       /\ trace' = Append(tr, <<"search", "end", "failed">>)
       /\ UNCHANGED <<eligibilityData, coverageData, error, completed, lastReq,
                      searchRecord>>
  ELSE /\ memberCardData' = res.data
       /\ UNCHANGED <<eligibilityData, coverageData, error, isLoading, completed>>
       /\ BeginSave(c, tr)

\* lines 825-843 after a member-card result res
AfterMemberCard(res, c, tr) ==
  /\ memberCardData' = IF res.success THEN res.data ELSE Null
  /\ UNCHANGED <<eligibilityData, coverageData, error, isLoading, completed>>
  /\ BeginSave(c, tr)

\* mutant: a failed coverage lookup is thrown like a failed eligibility lookup
AfterCoverage_Throws(res, c, tr) ==
  IF ~res.success
  THEN FailSearch(res.message, c, tr)
  ELSE /\ coverageData' = res.data
       /\ UNCHANGED <<eligibilityData, memberCardData, error, isLoading, completed>>
       /\ IF MemberCardGate(eligibilityData)
          THEN BeginLookup("card", c, tr) /\ UNCHANGED searchRecord
          ELSE BeginSave(c, tr)

\* lines 811-843 after a coverage result res
AfterCoverage(res, c, tr) ==
  /\ coverageData' = IF res.success THEN res.data ELSE Null
  /\ UNCHANGED <<eligibilityData, memberCardData, error, isLoading, completed>>
  /\ IF MemberCardGate(eligibilityData)
     THEN BeginLookup("card", c, tr) /\ UNCHANGED searchRecord
     ELSE BeginSave(c, tr)

\* mutant: a failed eligibility lookup is not thrown and the record is saved
AfterEligibility_NoThrow(res, c, tr) ==
  /\ eligibilityData' = res.data
  /\ UNCHANGED <<coverageData, memberCardData, error, isLoading, completed>>
  /\ IF res.success /\ CoverageGate(res.data)
     THEN BeginLookup("cov", c, tr) /\ UNCHANGED searchRecord
     ELSE BeginSave(c, tr)

\* lines 789-843 after the eligibility result res
AfterEligibility(res, c, tr) ==
  IF ~res.success
  THEN FailSearch(IF Truthy(res.message) THEN res.message
                  ELSE Plain("Failed to search eligibility"), c, tr)
  ELSE /\ eligibilityData' = res.data
       /\ UNCHANGED <<coverageData, memberCardData, error, isLoading, completed>>
       /\ IF CoverageGate(res.data)
          THEN BeginLookup("cov", c, tr) /\ UNCHANGED searchRecord
          ELSE BeginSave(c, tr)

AfterLookup(call, res, c, tr) ==
  CASE call = "elig" -> AfterEligibility(res, c, tr)
    [] call = "cov" -> AfterCoverage(res, c, tr)
    [] call = "card" -> AfterMemberCard(res, c, tr)

\* ----------------------------------------------------------------- actions
\* handleSubmit up to its first await
Submit ==
  /\ UNCHANGED dateVars
  /\ UNCHANGED authVars
  /\ UNCHANGED sessionVars
  /\ pc = Idle
  /\ \E f \in Forms :
       /\ form' = f
       /\ eligibilityData' = Null /\ coverageData' = Null /\ memberCardData' = Null
       /\ completed' = Null /\ searchRecord' = Null
       /\ UNCHANGED <<now, gen_pc, lastTokenData, lastExt>>
       /\ IF f.memberId = "" \/ f.dateOfBirth = ""
          THEN /\ error' = Plain("Member ID and Date of Birth are required")
               /\ trace' = <<>>
               /\ UNCHANGED <<cache, pc, isLoading, lastReq>>
          ELSE IF ~GetTokenInfoIsValid(cache, now)
          THEN /\ error' = Plain("OAuth token is required. Please generate a token first.")
               /\ trace' = <<>>
               /\ UNCHANGED <<cache, pc, isLoading, lastReq>>
          ELSE /\ error' = NoMessage
               /\ isLoading' = TRUE
               /\ BeginLookup("elig", cache, <<>>)

\* history: the tokenData generateToken reads from response r, if it reads one
TokenDataRead(r, old) ==
  IF r.net = "ok" /\ r.status = 200 /\ r.success THEN r.data ELSE old

\* mutant: a failed token request is sent once more
SearchTokenResponse_Retry ==
  /\ UNCHANGED dateVars
  /\ UNCHANGED authVars
  /\ UNCHANGED sessionVars
  /\ pc[2] = "token"
  /\ UNCHANGED <<now, gen_pc, form, lastExt>>
  /\ \E r \in TokenResponses :
       LET g == GenerateToken(cache, now, r)
           call == pc[1]
       IN  /\ lastTokenData' = TokenDataRead(r, lastTokenData)
           /\ IF g.success
              THEN /\ cache' = g.c
                   /\ pc' = <<call, "lookup">>
                   /\ trace' = trace \o <<(<<call, "token", "ok">>), (<<call, "lookup", "send">>)>>
                   /\ lastReq' = [call |-> call, token |-> g.c.token,
                               skewValid |-> SkewValid(g.c.tokenExpires, now)]
                   /\ UNCHANGED <<eligibilityData, coverageData, memberCardData,
                                  error, isLoading, completed, searchRecord>>
              ELSE IF \E i \in 1..Len(trace) : trace[i] = <<call, "token", "fail">>
              THEN AfterLookup(call, NoTokenResult, g.c,
                               Append(trace, <<call, "token", "fail">>))
              ELSE /\ cache' = g.c
                   /\ trace' = trace \o <<(<<call, "token", "fail">>), (<<call, "token", "send">>)>>
                   /\ UNCHANGED <<pc, lastReq, eligibilityData, coverageData,
                                  memberCardData, error, isLoading, completed,
                                  searchRecord>>

\* the token request sent by ensureValidToken inside a lookup call answers
SearchTokenResponse ==
  /\ UNCHANGED dateVars
  /\ UNCHANGED authVars
  /\ UNCHANGED sessionVars
  /\ pc[2] = "token"
  /\ UNCHANGED <<now, gen_pc, form, lastExt>>
  /\ \E r \in TokenResponses :
       LET g == GenerateToken(cache, now, r)
           call == pc[1]
       IN  /\ lastTokenData' = TokenDataRead(r, lastTokenData)
           /\ IF g.success
              THEN /\ cache' = g.c
                   /\ pc' = <<call, "lookup">>
                   /\ trace' = trace \o <<(<<call, "token", "ok">>), (<<call, "lookup", "send">>)>>
                   /\ lastReq' = [call |-> call, token |-> g.c.token,
                               skewValid |-> SkewValid(g.c.tokenExpires, now)]
                   /\ UNCHANGED <<eligibilityData, coverageData, memberCardData,
                                  error, isLoading, completed, searchRecord>>
              ELSE AfterLookup(call, NoTokenResult, g.c,
                               Append(trace, <<call, "token", "fail">>))

Outcome(res) == IF res.success THEN "ok" ELSE "fail"

EligibilityResponse ==
  /\ UNCHANGED dateVars
  /\ UNCHANGED authVars
  /\ UNCHANGED sessionVars
  /\ pc = <<"elig", "lookup">>
  /\ UNCHANGED <<now, gen_pc, form, lastTokenData>>
  /\ \E x \in ExtEligibilityResponses \cup {ExtUnreached} :
       LET r == IF x = ExtUnreached THEN ProxyDown ELSE ProxyEligibility(lastReq.token, x)
           res == LookupResult(r, Plain("Eligibility search failed"))
       IN  /\ lastExt' = x
           /\ AfterEligibility(res, cache, Append(trace, <<"elig", "lookup", Outcome(res)>>))

\* mutant: a failed coverage lookup invalidates the cached token
CoverageResponse_ClearsOnFailure ==
  /\ UNCHANGED dateVars
  /\ UNCHANGED authVars
  /\ UNCHANGED sessionVars
  /\ pc = <<"cov", "lookup">>
  /\ UNCHANGED <<now, gen_pc, form, lastTokenData>>
  /\ \E x \in ExtCoverageResponses \cup {ExtUnreached} :
       LET r == IF x = ExtUnreached THEN ProxyDown ELSE ProxyCoverage(lastReq.token, x)
           res == LookupResult(r, Plain("Coverage details search failed"))
       IN  /\ lastExt' = x
           /\ AfterCoverage(res, IF res.success THEN cache ELSE ClearStoredToken(cache),
                            Append(trace, <<"cov", "lookup", Outcome(res)>>))

CoverageResponse ==
  /\ UNCHANGED dateVars
  /\ UNCHANGED authVars
  /\ UNCHANGED sessionVars
  /\ pc = <<"cov", "lookup">>
  /\ UNCHANGED <<now, gen_pc, form, lastTokenData>>
  /\ \E x \in ExtCoverageResponses \cup {ExtUnreached} :
       LET r == IF x = ExtUnreached THEN ProxyDown ELSE ProxyCoverage(lastReq.token, x)
           res == LookupResult(r, Plain("Coverage details search failed"))
       IN  /\ lastExt' = x
           /\ AfterCoverage(res, cache, Append(trace, <<"cov", "lookup", Outcome(res)>>))

\* the member-card request of handleSubmit lines 818-824
MemberCardRequest ==
  [transactionId |-> eligibilityData.transactionId,
   memberId |-> eligibilityData.memberId,
   dateOfBirth |-> form.dateOfBirth,
   payerId |-> eligibilityData.payerId,
   firstName |-> eligibilityData.firstName]

MemberCardResponse ==
  /\ UNCHANGED dateVars
  /\ UNCHANGED authVars
  /\ UNCHANGED sessionVars
  /\ pc = <<"card", "lookup">>
  /\ UNCHANGED <<now, gen_pc, form, lastTokenData>>
  /\ \E x \in ExtMemberCardResponses \cup {ExtUnreached} :
       LET r == IF x = ExtUnreached THEN ProxyDown
                ELSE ProxyMemberCard(lastReq.token, MemberCardRequest, x)
           res == LookupResult(r, Plain("Member card retrieval failed"))
       IN  /\ lastExt' = x
           /\ AfterMemberCard(res, cache, Append(trace, <<"card", "lookup", Outcome(res)>>))

\* what the insert of supabase can do: return the row, return an error, throw
DbOutcomes == {"inserted", "error", "throws"}

\* DatabaseService.savePatientSearch: both failures become success:false
SavePatientSearch(o) ==
  IF o = "inserted" THEN [success |-> TRUE, hasId |-> TRUE]
  ELSE [success |-> FALSE, hasId |-> FALSE]

\* mutant: a failed save is thrown into the catch of handleSubmit
SaveResponse_ThrowsOnFailure ==
  /\ UNCHANGED dateVars
  /\ UNCHANGED authVars
  /\ UNCHANGED sessionVars
  /\ pc = <<"save", "db">>
  /\ \E o \in DbOutcomes :
       LET dbResult == SavePatientSearch(o) IN
       /\ trace' = Append(trace, <<"save", "db", IF dbResult.success THEN "ok" ELSE "fail">>)
       /\ IF dbResult.success
          THEN /\ completed' = [kind |-> "results", eligibility |-> eligibilityData,
                                coverage |-> coverageData,
                                memberCard |-> memberCardData,
                                hasSearchId |-> dbResult.hasId]
               /\ error' = error
          ELSE /\ completed' = completed
               /\ error' = Plain("Failed to save search to database")
  /\ isLoading' = FALSE
  /\ pc' = Idle
  /\ UNCHANGED <<now, cache, gen_pc, form, eligibilityData, coverageData,
                 memberCardData, searchRecord, lastReq, lastTokenData, lastExt>>

\* db.savePatientSearch answers; lines 843-862
SaveResponse ==
  /\ UNCHANGED dateVars
  /\ UNCHANGED authVars
  /\ UNCHANGED sessionVars
  /\ pc = <<"save", "db">>
  /\ \E o \in DbOutcomes :
       LET dbResult == SavePatientSearch(o) IN
       /\ completed' = [kind |-> "results", eligibility |-> eligibilityData,
                        coverage |-> coverageData, memberCard |-> memberCardData,
                        hasSearchId |-> dbResult.hasId]
       /\ trace' = Append(trace, <<"save", "db", IF dbResult.success THEN "ok" ELSE "fail">>)
  /\ isLoading' = FALSE
  /\ pc' = Idle
  /\ UNCHANGED <<now, cache, gen_pc, form, error, eligibilityData, coverageData,
                 memberCardData, searchRecord, lastReq, lastTokenData, lastExt>>

\* TokenManager: the Generate OAuth Token button
GenerateTokenClick ==
  /\ UNCHANGED dateVars
  /\ UNCHANGED authVars
  /\ UNCHANGED sessionVars
  /\ gen_pc = "idle"
  /\ gen_pc' = "wait"
  /\ UNCHANGED <<now, cache, lastTokenData>>
  /\ UNCHANGED searchVars

GenerateTokenResponse ==
  /\ UNCHANGED dateVars
  /\ UNCHANGED authVars
  /\ UNCHANGED sessionVars
  /\ gen_pc = "wait"
  /\ \E r \in TokenResponses :
       /\ cache' = GenerateToken(cache, now, r).c
       /\ lastTokenData' = TokenDataRead(r, lastTokenData)
  /\ gen_pc' = "idle"
  /\ UNCHANGED now
  /\ UNCHANGED searchVars

\* TokenManager: the Clear Token button
ClearTokenClick ==
  /\ UNCHANGED dateVars
  /\ UNCHANGED authVars
  /\ UNCHANGED sessionVars
  /\ cache' = ClearStoredToken(cache)
  /\ UNCHANGED <<now, gen_pc, lastTokenData>>
  /\ UNCHANGED searchVars

\* TokenManager's effect calls uhcApi.loadStoredToken()
TokenManagerMount ==
  /\ UNCHANGED dateVars
  /\ UNCHANGED authVars
  /\ UNCHANGED sessionVars
  /\ cache' = LoadStoredToken(cache, now).c
  /\ UNCHANGED <<now, gen_pc, lastTokenData>>
  /\ UNCHANGED searchVars

\* time passes
Tick ==
  /\ UNCHANGED dateVars
  /\ UNCHANGED authVars
  /\ UNCHANGED sessionVars
  /\ now < MaxTicks * TickMs
  /\ now' = now + TickMs
  /\ UNCHANGED <<cache, gen_pc, lastTokenData>>
  /\ UNCHANGED searchVars

\* user 1 is signed in, initializeAuth has finished and the components are
\* mounted and hold user 1
SignedInView ==
  [init |-> "subscribed", session |-> 1, initialPending |-> FALSE, msal |-> FALSE,
   signIn |-> 0, signOut |-> "idle", mounted |-> TRUE, guardUser |-> 1,
   guardLoading |-> FALSE]

\* no token cache call has returned yet
NoOp == [op |-> "none"]

\* localStorage as a previous session may have left it
InitStorages ==
  {[token |-> 0, expires |-> NoItem]} \cup
  {[token |-> 1, expires |-> ToISOString(Date(ms))] :
     ms \in {0 - TickMs, ShortExpiresIn * 1000, DefaultExpiresIn * 1000}}

\* the state after `new UHCApiClient()`: the constructor calls loadStoredToken
Init ==
  /\ now = 0
  /\ \E st \in InitStorages :
       cache = LoadStoredToken([EmptyCache EXCEPT !.ls_token = st.token,
                                                  !.ls_expires = st.expires], 0).c
  /\ pc = Idle
  /\ form = [memberId |-> "", dateOfBirth |-> ""]
  /\ isLoading = FALSE
  /\ error = NoMessage
  /\ eligibilityData = Null /\ coverageData = Null /\ memberCardData = Null
  /\ completed = Null
  /\ searchRecord = Null
  /\ trace = <<>>
  /\ lastReq = NoReq
  /\ lastTokenData = Null
  /\ lastExt = ExtUnreached
  /\ gen_pc = "idle"
  /\ currentUser = 1
  /\ lastOp = NoOp
  /\ dobInput = NoDob /\ dobSent = NoDob
  /\ authView = SignedInView

Next ==
  \/ Submit
  \/ SearchTokenResponse
  \/ EligibilityResponse
  \/ CoverageResponse
  \/ MemberCardResponse
  \/ SaveResponse
  \/ GenerateTokenClick
  \/ GenerateTokenResponse
  \/ ClearTokenClick
  \/ TokenManagerMount
  \/ Tick

Spec == Init /\ [][Next]_vars

\* every awaited call of a search (token request, the three lookups, the
\* insert) eventually returns or fails: fetch and the supabase client settle
\* their promises
SpecLive ==
  /\ Spec
  /\ WF_vars(SearchTokenResponse)
  /\ WF_vars(EligibilityResponse)
  /\ WF_vars(CoverageResponse)
  /\ WF_vars(MemberCardResponse)
  /\ WF_vars(SaveResponse)

\* ------------------------------------------ the token cache and the session
\* Every public method of the token cache runs under every behaviour of
\* localStorage and every answer of the token endpoint; lastOp keeps what the
\* call returned and the cache it started from.
MaxUsers == 2
Users == 1..MaxUsers

\* answers of POST /api/uhc/token beyond those of the proxy of this repository:
\* a failure envelope with and without an error object, a success envelope
\* with no data, and bodies that are not JSON
CacheTokenResponses ==
  TokenResponses \cup
  {ProxyReply(200, FALSE, Null, NoErrorObject),
   ProxyReply(200, FALSE, Null, Plain("denied")),
   ProxyReply(200, TRUE, Null, NoMessage),
   ProxyReply(200, FALSE, NotJson, NoMessage),
   ProxyReply(502, FALSE, NotJson, NoMessage)}

searchState == <<pc, form, isLoading, error, eligibilityData, coverageData,
                 memberCardData, completed, searchRecord, trace, lastExt, lastReq>>

\* a generateToken call starts (TokenManager's button, signed-in users only)
CacheGenerateCall ==
  /\ UNCHANGED dateVars
  /\ UNCHANGED authVars
  /\ currentUser # 0
  /\ gen_pc = "idle"
  /\ gen_pc' = "wait"
  /\ lastOp' = [op |-> "generate-call", ok |-> TRUE, threw |-> FALSE,
                error |-> NoMessage, pre |-> cache, at |-> now, storage |-> "ok",
                read |-> FALSE]
  /\ UNCHANGED <<now, cache, lastTokenData, currentUser>>
  /\ UNCHANGED searchState

\* the token endpoint answers and generateToken returns
CacheGenerateReturn ==
  /\ UNCHANGED dateVars
  /\ UNCHANGED authVars
  /\ gen_pc = "wait"
  /\ gen_pc' = "idle"
  /\ \E r \in CacheTokenResponses, st \in StorageModes :
       LET g == GenerateTokenS(cache, now, r, st) IN
       /\ cache' = g.c
       /\ lastTokenData' = TokenDataRead(r, lastTokenData)
       /\ lastOp' = [op |-> "generate", ok |-> g.success, threw |-> g.threw,
                     error |-> g.error, pre |-> cache, at |-> now, storage |-> st,
                     read |-> r.net = "ok" /\ r.status = 200 /\ r.success
                              /\ r.data # Null]
  /\ UNCHANGED <<now, currentUser>>
  /\ UNCHANGED searchState

\* clearStoredToken (TokenManager.handleClearToken)
CacheClear ==
  /\ UNCHANGED dateVars
  /\ UNCHANGED authVars
  /\ currentUser # 0
  /\ \E st \in StorageModes :
       LET x == ClearStoredTokenS(cache, st) IN
       /\ cache' = x.c
       /\ lastOp' = [op |-> "clear", ok |-> ~x.threw, threw |-> x.threw,
                     error |-> NoMessage, pre |-> cache, at |-> now,
                     storage |-> st, read |-> FALSE]
  /\ UNCHANGED <<now, gen_pc, lastTokenData, currentUser>>
  /\ UNCHANGED searchState

\* loadStoredToken (TokenManager's mount effect)
CacheLoad ==
  /\ UNCHANGED dateVars
  /\ UNCHANGED authVars
  /\ currentUser # 0
  /\ \E st \in StorageModes :
       LET x == LoadStoredTokenS(cache, now, st) IN
       /\ cache' = x.c
       /\ lastOp' = [op |-> "load", ok |-> x.ret, threw |-> x.threw,
                     error |-> NoMessage, pre |-> cache, at |-> now,
                     storage |-> st, read |-> FALSE]
  /\ UNCHANGED <<now, gen_pc, lastTokenData, currentUser>>
  /\ UNCHANGED searchState

\* supabase.auth.signOut answers with an error, without one, or throws
SignOutOutcomes == {"signed-out", "error", "throws"}

\* AuthService.signOut: only currentUser changes, and only on success
SignOutResult(o) == [success |-> o = "signed-out"]

SignOut ==
  /\ UNCHANGED dateVars
  /\ UNCHANGED authVars
  /\ currentUser # 0
  /\ \E o \in SignOutOutcomes :
       LET res == SignOutResult(o) IN
       /\ currentUser' = IF res.success THEN 0 ELSE currentUser
       /\ lastOp' = [op |-> "signOut", ok |-> res.success, threw |-> FALSE,
                     error |-> NoMessage, pre |-> cache, at |-> now,
                     storage |-> "ok", read |-> FALSE]
  /\ UNCHANGED <<now, cache, gen_pc, lastTokenData>>
  /\ UNCHANGED searchState

\* AuthService.signIn succeeds for some user
SignIn ==
  /\ UNCHANGED dateVars
  /\ UNCHANGED authVars
  /\ currentUser = 0
  /\ \E u \in Users : currentUser' = u
  /\ UNCHANGED <<now, cache, gen_pc, lastTokenData, lastOp>>
  /\ UNCHANGED searchState

CacheTick ==
  /\ UNCHANGED dateVars
  /\ UNCHANGED authVars
  /\ now < MaxTicks * TickMs
  /\ now' = now + TickMs
  /\ UNCHANGED <<cache, gen_pc, lastTokenData, currentUser, lastOp>>
  /\ UNCHANGED searchState

\* the constructor's loadStoredToken is the first call of the cache
InitCache ==
  /\ now = 0
  /\ \E st \in InitStorages :
       LET c0 == [EmptyCache EXCEPT !.ls_token = st.token, !.ls_expires = st.expires]
           x == LoadStoredTokenS(c0, 0, "ok")
       IN  /\ cache = x.c
           /\ lastOp = [op |-> "load", ok |-> x.ret, threw |-> x.threw,
                        error |-> NoMessage, pre |-> c0, at |-> 0,
                        storage |-> "ok", read |-> FALSE]
  /\ pc = Idle
  /\ form = [memberId |-> "", dateOfBirth |-> ""]
  /\ isLoading = FALSE
  /\ error = NoMessage
  /\ eligibilityData = Null /\ coverageData = Null /\ memberCardData = Null
  /\ completed = Null
  /\ searchRecord = Null
  /\ trace = <<>>
  /\ lastReq = NoReq
  /\ lastTokenData = Null
  /\ lastExt = ExtUnreached
  /\ gen_pc = "idle"
  /\ currentUser = 1
  /\ dobInput = NoDob /\ dobSent = NoDob
  /\ authView = SignedInView

NextCache ==
  \/ CacheGenerateCall
  \/ CacheGenerateReturn
  \/ CacheClear
  \/ CacheLoad
  \/ SignOut
  \/ SignIn
  \/ CacheTick

SpecCache == InitCache /\ [][NextCache]_vars

\* ------------------------------------------------- the date of birth field
\* digit strings a user types between separators
DigitStrings == {<<5>>, <<1, 2>>, <<8, 0>>, <<1, 9, 8, 0>>}
MaxParts == 3
PartSeqs == UNION {[1..n -> DigitStrings] : n \in 1..MaxParts}
\* the non-empty texts of the input: type="text", nothing restricts the format
DobInputs == {[sep |-> sp, parts |-> p] : sp \in {"/", "-"}, p \in PartSeqs}

\* the state the other components are in while the form is edited
QuietCore ==
  /\ now = 0
  /\ cache = EmptyCache
  /\ pc = Idle
  /\ form = [memberId |-> "", dateOfBirth |-> ""]
  /\ isLoading = FALSE
  /\ error = NoMessage
  /\ eligibilityData = Null /\ coverageData = Null /\ memberCardData = Null
  /\ completed = Null
  /\ searchRecord = Null
  /\ trace = <<>>
  /\ lastReq = NoReq
  /\ lastTokenData = Null
  /\ lastExt = ExtUnreached
  /\ gen_pc = "idle"
  /\ lastOp = NoOp

QuietState == QuietCore /\ currentUser = 1 /\ authView = SignedInView

quietCoreVars == <<now, cache, pc, form, isLoading, error, eligibilityData,
                   coverageData, memberCardData, completed, searchRecord, trace,
                   lastTokenData, lastExt, lastReq, gen_pc, lastOp>>
quietVars == <<quietCoreVars, currentUser, authView>>

\* handleInputChange on the Date of Birth input
TypeDateOfBirth ==
  /\ \E s \in DobInputs : dobInput' = s
  /\ UNCHANGED dobSent
  /\ UNCHANGED quietVars

\* handleSubmit lines 781 and 821: the lookups get formatDateOfBirth(dateOfBirth)
SendDateOfBirth ==
  /\ dobInput # NoDob
  /\ dobSent' = FormatDateOfBirth(dobInput)
  /\ UNCHANGED dobInput
  /\ UNCHANGED quietVars

InitDate == QuietState /\ dobInput = NoDob /\ dobSent = NoDob

NextDate == TypeDateOfBirth \/ SendDateOfBirth

SpecDate == InitDate /\ [][NextDate]_vars

\* ------------------------------------------------------ auth state events
\* window.dispatchEvent runs the listeners synchronously: what the listening
\* components (App, AuthGuard) hold after an authStateChange carrying user u
Dispatch(v, u) ==
  IF v.mounted THEN [v EXCEPT !.guardUser = u, !.guardLoading = FALSE] ELSE v

\* the callback registered at auth.ts line 52, called with session s (0: none):
\* sets currentUser and dispatches authStateChange; [user, view]
AuthStateCallback(v, s) == [user |-> s, view |-> Dispatch(v, s)]

\* initializeAuth: getSession resolves, currentUser is set from the session
\* without an event, and the callback is registered; the supabase client then
\* owes the new subscriber its INITIAL_SESSION call
GetSessionResolves ==
  /\ authView.init = "getSession"
  /\ currentUser' = IF authView.session # 0 THEN authView.session ELSE currentUser
  /\ authView' = [authView EXCEPT !.init = "subscribed", !.initialPending = TRUE]
  /\ UNCHANGED <<quietCoreVars, dateVars>>

\* initializeAuth: getSession throws, the catch logs, no callback is registered
GetSessionThrows ==
  /\ authView.init = "getSession"
  /\ authView' = [authView EXCEPT !.init = "failed"]
  /\ UNCHANGED <<quietCoreVars, dateVars, currentUser>>

\* the supabase client calls the new subscriber with INITIAL_SESSION
InitialSessionCallback ==
  /\ authView.initialPending
  /\ LET r == AuthStateCallback([authView EXCEPT !.initialPending = FALSE],
                                authView.session)
     IN  currentUser' = r.user /\ authView' = r.view
  /\ UNCHANGED <<quietCoreVars, dateVars>>

\* the effect of App and AuthGuard: read getCurrentUser(), then subscribe
MountGuard ==
  /\ ~authView.mounted
  /\ authView' = [authView EXCEPT !.mounted = TRUE, !.guardUser = currentUser,
                                  !.guardLoading = FALSE]
  /\ UNCHANGED <<quietCoreVars, dateVars, currentUser>>

\* AuthModal, opened from AuthGuard's sign-in screen: signIn or
\* signInWithMicrosoft awaits supabase.auth.signInWithPassword for user u
SignInStart ==
  /\ authView.mounted /\ authView.guardUser = 0 /\ authView.signIn = 0
  /\ \E u \in Users : authView' = [authView EXCEPT !.signIn = u]
  /\ UNCHANGED <<quietCoreVars, dateVars, currentUser>>

\* the sign-in request settles: on success the supabase client holds the
\* session (a Microsoft sign-in also leaves an MSAL account) and a registered
\* callback receives SIGNED_IN; signIn itself does not set currentUser
SignInSettles ==
  /\ authView.signIn # 0
  /\ \E ok \in BOOLEAN, ms \in BOOLEAN :
       LET u == authView.signIn
           v == [authView EXCEPT !.signIn = 0, !.session = u,
                                 !.msal = authView.msal \/ ms]
       IN  IF ~ok
           THEN currentUser' = currentUser /\ authView' = [authView EXCEPT !.signIn = 0]
           ELSE IF authView.init = "subscribed"
           THEN LET r == AuthStateCallback(v, u) IN
                currentUser' = r.user /\ authView' = r.view
           ELSE currentUser' = currentUser /\ authView' = v
  /\ UNCHANGED <<quietCoreVars, dateVars>>

\* UserMenu.handleSignOut: AuthService.signOut awaits supabase.auth.signOut
SignOutStart ==
  /\ authView.mounted /\ authView.guardUser # 0 /\ authView.signOut = "idle"
  /\ authView' = [authView EXCEPT !.signOut = "supabase"]
  /\ UNCHANGED <<quietCoreVars, dateVars, currentUser>>

\* supabase.auth.signOut settles. With an error (or a throw) signOut returns
\* success:false. Otherwise a registered callback has received SIGNED_OUT;
\* with an MSAL account logoutPopup is awaited, without one lines 320-321
\* follow at once
SignOutSupabaseSettles ==
  /\ authView.signOut = "supabase"
  /\ \E o \in SignOutOutcomes :
       IF ~SignOutResult(o).success
       THEN currentUser' = currentUser /\ authView' = [authView EXCEPT !.signOut = "idle"]
       ELSE LET v == [authView EXCEPT !.session = 0]
                r == IF authView.init = "subscribed" THEN AuthStateCallback(v, 0)
                     ELSE [user |-> currentUser, view |-> v]
            IN  IF authView.msal
                THEN /\ currentUser' = r.user
                     /\ authView' = [r.view EXCEPT !.signOut = "msal"]
                ELSE /\ currentUser' = 0
                     /\ authView' = [r.view EXCEPT !.signOut = "idle"]
  /\ UNCHANGED <<quietCoreVars, dateVars>>

\* logoutPopup settles (a failure is caught); lines 320-321 null currentUser
\* and currentSession, and no event is dispatched
SignOutMsalSettles ==
  /\ authView.signOut = "msal"
  /\ currentUser' = 0
  /\ authView' = [authView EXCEPT !.signOut = "idle", !.msal = FALSE]
  /\ UNCHANGED <<quietCoreVars, dateVars>>

\* page load: a session may be stored, with or without an MSAL account
InitAuth ==
  /\ QuietCore
  /\ dobInput = NoDob /\ dobSent = NoDob
  /\ currentUser = 0
  /\ \E s \in {0} \cup Users, ms \in BOOLEAN :
       authView = [init |-> "getSession", session |-> s, initialPending |-> FALSE,
                   msal |-> ms, signIn |-> 0, signOut |-> "idle", mounted |-> FALSE,
                   guardUser |-> 0, guardLoading |-> TRUE]

NextAuth ==
  \/ GetSessionResolves
  \/ GetSessionThrows
  \/ InitialSessionCallback
  \/ MountGuard
  \/ SignInStart
  \/ SignInSettles
  \/ SignOutStart
  \/ SignOutSupabaseSettles
  \/ SignOutMsalSettles

SpecAuth == InitAuth /\ [][NextAuth]_vars

\* ------------------------------------------------------------- properties
Events == 1..Len(trace)
HasEvent(e) == \E i \in Events : trace[i] = e
Attempted(call) == \E i \in Events : trace[i][1] = call
Failed(call) == HasEvent(<<call, "lookup", "fail">>) \/ HasEvent(<<call, "token", "fail">>)
SearchCompleted == pc = Idle /\ completed # Null
EligibilitySucceeded == eligibilityData # Null

\* C1: getTokenInfo reports isValid exactly when a token and an expiry are
\* present and now + 5 minutes < expiresAt.
C1_GetTokenInfoUsesSkewRule ==
  GetTokenInfoIsValid(cache, now)
    <=> (cache.token # 0 /\ cache.tokenExpires # NullDate
         /\ SkewValid(cache.tokenExpires, now))

\* C2 as stated: right after an ensureValidToken that acquired a fresh token, a
\* second ensureValidToken does not acquire again, whatever expires_in was.
C2_SecondEnsureNeverAcquires ==
  [][(pc[2] = "token" /\ pc'[2] = "lookup")
       => ~EnsureValidToken(cache', now').generate]_vars

\* C2 amended: right after an ensureValidToken that acquired a fresh token whose
\* expires_in parses to more than 300 seconds, a second ensureValidToken returns
\* true without acquiring again and leaves the cache as it is.
C2_SecondEnsureReusesLongToken ==
  [][(pc[2] = "token" /\ pc'[2] = "lookup"
      /\ ParseExpiresIn(lastTokenData'.expires_in).n * 1000 > SkewBufferMs)
       => /\ ~EnsureValidToken(cache', now').generate
          /\ EnsureValidToken(cache', now').c = cache']_vars

C2_Witness ==
  /\ pc[2] = "lookup"
  /\ Len(trace) >= 2
  /\ trace[Len(trace) - 1] = <<pc[1], "token", "ok">>
  /\ lastTokenData # Null
  /\ lastTokenData.expires_in = ExpiresInNum(LongExpiresIn)
  /\ ~EnsureValidToken(cache, now).generate

\* C3: a search with member id and date of birth is never rejected for lack of
\* a token unless a token acquisition was attempted (and failed).
C3_NoTokenRejectionOnlyAfterAcquisition ==
  error = Plain("OAuth token is required. Please generate a token first.")
    => HasEvent(<<"elig", "token", "send">>)

\* C4: when the external eligibility API answers non-2xx with body {message: M},
\* the search fails with exactly the message M.
C4_ErrorMessagePassthrough ==
  (/\ pc = Idle
   /\ Len(trace) >= 2
   /\ trace[Len(trace)] = <<"search", "end", "failed">>
   /\ trace[Len(trace) - 1] = <<"elig", "lookup", "fail">>
   /\ lastExt.net = "ok" /\ ~IsOk(lastExt.status)
   /\ lastExt.text[1] = "json-message")
    => error = Plain(lastExt.text[2])

\* C5: every lookup request is sent with a token that meets the skew rule
\* now + 5 minutes < expiresAt at the moment it is sent (ensureValidToken has
\* just returned true then).
C5_RequestsCarrySkewValidToken == lastReq.skewValid

\* C6: after a successful eligibility lookup without patientKey no coverage
\* lookup is made, and the search completes without error with the eligibility
\* data and a null coverage.
C6_NoPatientKeyNoCoverage ==
  (EligibilitySucceeded /\ eligibilityData.patientKey = "")
    => /\ ~Attempted("cov")
       /\ error = NoMessage
       /\ pc \in {<<"save", "db">>, Idle}
       /\ pc = Idle => /\ completed # Null
                       /\ completed.eligibility = eligibilityData
                       /\ completed.coverage = Null

C6_Witness ==
  /\ SearchCompleted
  /\ eligibilityData.policy /\ eligibilityData.patientKey = ""
  /\ eligibilityData.transactionId # ""

\* C7: after a successful eligibility lookup without firstName no member-card
\* request is sent, and the search completes without error and without a
\* member card.
C7_NoFirstNameNoMemberCard ==
  (EligibilitySucceeded /\ eligibilityData.firstName = "")
    => /\ ~Attempted("card")
       /\ pc[1] # "card"
       /\ error = NoMessage
       /\ pc = Idle => completed # Null /\ completed.memberCard = Null

C7_Witness ==
  /\ SearchCompleted
  /\ eligibilityData.firstName = ""
  /\ eligibilityData.patientKey # "" /\ eligibilityData.transactionId # ""
  /\ eligibilityData.memberId # "" /\ eligibilityData.payerId # ""
  /\ HasEvent(<<"cov", "lookup", "ok">>)

\* C8: a completed search whose eligibility data has memberId, payerId,
\* firstName and transactionId (and a date of birth) has attempted the
\* member-card lookup, also when patientKey is absent.
C8_MemberCardIndependentOfCoverage ==
  (/\ SearchCompleted
   /\ MemberCardGate(eligibilityData)
   /\ eligibilityData.transactionId # ""
   /\ form.dateOfBirth # "")
    => Attempted("card")

\* C9: a failed coverage or member-card lookup does not fail the search: no
\* error is set, the failed enrichment is null, the member card is still
\* attempted after a failed coverage lookup, and the search ends by saving the
\* record and reporting the results.
C9_EnrichmentFailureSwallowed ==
  (Failed("cov") \/ Failed("card"))
    => /\ error = NoMessage
       /\ Failed("cov") => coverageData = Null
       /\ Failed("card") => memberCardData = Null
       /\ (Failed("cov") /\ MemberCardGate(eligibilityData)) => Attempted("card")
       /\ ~HasEvent(<<"search", "end", "failed">>)
       /\ pc = Idle => /\ HasEvent(<<"save", "db", "send">>)
                       /\ completed # Null
                       /\ completed.eligibility = eligibilityData
                       /\ Failed("cov") => completed.coverage = Null
                       /\ Failed("card") => completed.memberCard = Null

C9_Witness ==
  /\ SearchCompleted
  /\ HasEvent(<<"cov", "lookup", "fail">>)
  /\ HasEvent(<<"card", "lookup", "fail">>)
  /\ HasEvent(<<"save", "db", "ok">>)

\* C10: within one search the requests are strictly sequential: every request
\* is answered before the next one is sent; coverage, member-card and save
\* events come only after the eligibility lookup succeeded; a failed
\* eligibility lookup is followed by no enrichment and no save.
C10_StrictlySequential ==
  /\ \A i \in Events :
       (trace[i][3] = "send" /\ i < Len(trace))
         => /\ trace[i + 1][1] = trace[i][1]
            /\ trace[i + 1][2] = trace[i][2]
            /\ trace[i + 1][3] \in {"ok", "fail"}
  /\ \A i \in Events :
       trace[i][1] \in {"cov", "card", "save"}
         => \E j \in 1..(i - 1) : trace[j] = <<"elig", "lookup", "ok">>
  /\ \A i \in Events :
       trace[i] = <<"save", "db", "send">>
         => \A j \in 1..(i - 1) :
              trace[j][3] = "send" => trace[j + 1][3] \in {"ok", "fail"}
  /\ Failed("elig")
       => ~(Attempted("cov") \/ Attempted("card") \/ Attempted("save"))

C10_Witness ==
  /\ SearchCompleted
  /\ HasEvent(<<"cov", "lookup", "ok">>)
  /\ HasEvent(<<"card", "lookup", "ok">>)
  /\ HasEvent(<<"card", "token", "ok">>)

\* C11: when saving the record fails, the search is still reported as
\* successful: onSearchComplete gets the eligibility, coverage and member-card
\* data that were obtained, no error is shown, only the search id is missing.
C11_SaveFailureStillCompletes ==
  HasEvent(<<"save", "db", "fail">>)
    => /\ pc = Idle
       /\ error = NoMessage
       /\ completed # Null
       /\ completed.eligibility = eligibilityData /\ eligibilityData # Null
       /\ completed.coverage = coverageData
       /\ completed.memberCard = memberCardData
       /\ ~completed.hasSearchId

C11_Witness ==
  /\ HasEvent(<<"save", "db", "fail">>)
  /\ HasEvent(<<"cov", "lookup", "ok">>)
  /\ HasEvent(<<"card", "lookup", "ok">>)
  /\ completed # Null

SaveCalls == {i \in Events : trace[i] = <<"save", "db", "send">>}

\* C12: a search whose first policy has patientKey and transactionId and whose
\* coverage lookup succeeded reports both the eligibility and the coverage data
\* and has made exactly one save call, whose record holds those same two values.
C12_EligibilityAndCoverageSaved ==
  (/\ SearchCompleted
   /\ CoverageGate(eligibilityData)
   /\ HasEvent(<<"cov", "lookup", "ok">>))
    => /\ completed.eligibility = eligibilityData
       /\ completed.coverage \in CoverageDatas
       /\ Cardinality(SaveCalls) = 1
       /\ searchRecord # Null
       /\ searchRecord.eligibility_data = completed.eligibility
       /\ searchRecord.coverage_data = completed.coverage

C12_Witness ==
  /\ SearchCompleted
  /\ eligibilityData = FullPolicy
  /\ HasEvent(<<"cov", "lookup", "ok">>)
  /\ HasEvent(<<"save", "db", "ok">>)

\* the storage entries held a token and an expiry not later than t + 5 minutes
StoredStale(c, t) ==
  /\ c.ls_token # 0 /\ c.ls_expires # NoItem
  /\ DateGE(Date(t + SkewBufferMs), ParseDate(c.ls_expires))

\* C13: when local storage holds a token whose expiry is not later than
\* now + 5 minutes, loadStoredToken returns false and leaves no token: the
\* in-memory token and expiry are null and both storage keys are removed.
C13_RestoreDiscardsStaleToken ==
  (lastOp.op = "load" /\ lastOp.storage # "denied"
     /\ StoredStale(lastOp.pre, lastOp.at))
    => /\ ~lastOp.ok
       /\ cache.token = 0 /\ cache.tokenExpires = NullDate
       /\ cache.ls_token = 0 /\ cache.ls_expires = NoItem

C13_Witness ==
  /\ lastOp.op = "load" /\ lastOp.storage # "denied"
  /\ StoredStale(lastOp.pre, lastOp.at)
  /\ lastOp.pre.token # 0
  /\ cache = EmptyCache /\ ~lastOp.ok

\* the lifetime in seconds the token response asks for, 3600 when expires_in is
\* absent or is not a number
LifetimeSeconds(e) == IF e.k = "num" THEN e.n ELSE DefaultExpiresIn

\* C14: on a successful token response the expiry is now + expires_in seconds,
\* with 3600 for an absent and for an unparseable expires_in; acquisition
\* reports success and the token and the expiry are persisted.
C14_ExpiryDefaultsTo3600 ==
  (lastOp.op = "generate" /\ lastOp.read /\ lastOp.storage = "ok")
    => LET expires == Date(lastOp.at + LifetimeSeconds(lastTokenData.expires_in) * 1000)
       IN  /\ lastOp.ok
           /\ cache.token = lastTokenData.access_token
           /\ cache.tokenExpires = expires
           /\ cache.ls_token = lastTokenData.access_token
           /\ cache.ls_expires = ToISOString(expires)

\* C15: generateToken never throws: for every answer of the token request and
\* every storage behaviour it returns success:true with a token and an expiry
\* in the cache, or success:false with an error string.
C15_GenerateTokenNeverThrows ==
  lastOp.op = "generate"
    => /\ ~lastOp.threw
       /\ IF lastOp.ok
          THEN cache.token # 0 /\ cache.tokenExpires.k = "date"
               /\ lastOp.error = NoMessage
          ELSE lastOp.error[1] = "text" /\ lastOp.error[2] # ""

\* a storage write failed during generateToken
C15_Witness ==
  /\ lastOp.op = "generate" /\ lastOp.read /\ lastOp.storage = "full"
  /\ ~lastOp.ok /\ ~lastOp.threw

LookupCalls == {"elig", "cov", "card"}
TokenRequests(call) == {i \in Events : trace[i] = <<call, "token", "send">>}

\* C16: token acquisition is never retried: each lookup call of a search sends
\* at most one token request, and when that request fails the call sends no
\* lookup request and returns "Failed to obtain valid token".
C16_NoAutomaticRetry ==
  /\ \A call \in LookupCalls :
       /\ Cardinality(TokenRequests(call)) <= 1
       /\ HasEvent(<<call, "token", "fail">>)
            => /\ ~HasEvent(<<call, "lookup", "send">>)
               /\ ~HasEvent(<<call, "lookup", "ok">>)
               /\ pc[1] # call
  /\ HasEvent(<<"elig", "token", "fail">>)
       => /\ error = NoTokenResult.message
          /\ error = Plain("Failed to obtain valid token")
          /\ pc = Idle

\* the token request of the coverage call failed and the search went on
C16_Witness ==
  /\ HasEvent(<<"cov", "token", "fail">>)
  /\ Cardinality(TokenRequests("cov")) = 1
  /\ ~HasEvent(<<"cov", "lookup", "send">>)
  /\ SearchCompleted

\* C17: the token cache is written only after a successful acquisition: a
\* generateToken call that returns success:false leaves the in-memory token and
\* expiry and both storage entries exactly as they were before the call.
C17_FailedAcquisitionLeavesCache ==
  (lastOp.op = "generate" /\ ~lastOp.ok) => cache = lastOp.pre

\* C18: from any token state clearStoredToken leaves the cache empty: the
\* in-memory token and expiry are null, both storage keys are removed,
\* getTokenInfo reports isValid = false and a second call changes nothing; and
\* while the cache is empty a submitted search sends no eligibility request.
C18_ClearEmptiesCache ==
  [][/\ ClearTokenClick
          => /\ cache'.token = 0 /\ cache'.tokenExpires = NullDate
             /\ cache'.ls_token = 0 /\ cache'.ls_expires = NoItem
             /\ ~GetTokenInfoIsValid(cache', now')
             /\ ClearStoredToken(cache') = cache'
     /\ (cache = EmptyCache /\ pc = Idle)
          => /\ pc' = Idle
             /\ lastReq' = lastReq
             /\ trace' \in {trace, <<>>}
    ]_vars

\* a token with the default lifetime was cleared and the next search was refused
C18_Witness ==
  /\ cache = EmptyCache
  /\ lastTokenData # Null
  /\ lastTokenData.expires_in = ExpiresInAbsent
  /\ form.memberId # "" /\ form.dateOfBirth # ""
  /\ error = Plain("OAuth token is required. Please generate a token first.")
  /\ trace = <<>>

\* C19: after auth.signOut completes successfully the bearer token is held
\* neither in memory nor in local storage, so the next signed-in user cannot
\* reuse it.
C19_SignOutClearsToken ==
  (lastOp.op = "signOut" /\ lastOp.ok)
    => /\ cache.token = 0 /\ cache.tokenExpires = NullDate
       /\ cache.ls_token = 0 /\ cache.ls_expires = NoItem

\* C20: a throwing localStorage is never fatal to loadStoredToken,
\* clearStoredToken or the persist step of generateToken: the call does not
\* throw, and no in-memory token is left that was not persisted.
C20_StorageFailureNotFatal ==
  (lastOp.op \in {"load", "clear", "generate"} /\ lastOp.storage # "ok")
    => /\ ~lastOp.threw
       /\ cache.token # 0
            => /\ cache.ls_token = cache.token
               /\ cache.ls_expires = ToISOString(cache.tokenExpires)

Range(q) == {q[i] : i \in 1..Len(q)}
CardFields == {"transactionId", "memberId", "payerId", "firstName", "dateOfBirth"}
\* member-card requests built from the displayed eligibility data, with the
\* date of birth present or missing
CardRequestsShown ==
  IF eligibilityData = Null THEN {}
  ELSE {[transactionId |-> eligibilityData.transactionId,
         memberId |-> eligibilityData.memberId,
         payerId |-> eligibilityData.payerId,
         firstName |-> eligibilityData.firstName,
         dateOfBirth |-> dob] : dob \in {"", "1980-05-01"}}

\* C21: a request missing a required field is rejected before any call to the
\* external API and the error names exactly the missing fields: on the search
\* form, in View Member Card and in the proxy's member-card endpoint.
C21_ValidationNamesMissingFields ==
  [][/\ (Submit /\ (form'.memberId = "" \/ form'.dateOfBirth = ""))
          => /\ trace' = <<>> /\ pc' = Idle /\ lastReq' = lastReq
             /\ error' = Plain("Member ID and Date of Birth are required")
             /\ Range(SearchFormNamedFields(form'))
                  = {f \in {"memberId", "dateOfBirth"} : form'[f] = ""}
     /\ \A req \in CardRequestsShown :
          /\ Range(ViewMemberCardMissingFields(req)) = {f \in CardFields : req[f] = ""}
          /\ Range(ProxyMemberCardMissingFields(req)) = {f \in CardFields : req[f] = ""}
          /\ (\E f \in CardFields : req[f] = "")
               => ProxyMemberCard(1, req, ExtImage).status = 400
    ]_vars

\* a 2xx answer whose body is neither image data nor JSON
NonJson2xx(x) == x.net = "ok" /\ IsOk(x.status) /\ ~x.isJson /\ ~x.image

FullCardRequest ==
  [transactionId |-> "TX1", memberId |-> "M1", dateOfBirth |-> "1980-05-01",
   payerId |-> "P1", firstName |-> "JANE"]

\* C22: each of the four proxy operations relays a 2xx answer that is neither
\* an image nor JSON as a success whose data wraps the raw text; the body is
\* never turned into a 500 error.
C22_NonJsonBodyRelayedAsSuccess ==
  NonJson2xx(lastExt)
    => \A r \in {ProxyToken(lastExt), ProxyEligibility(1, lastExt),
                 ProxyCoverage(1, lastExt),
                 ProxyMemberCard(1, FullCardRequest, lastExt)} :
         r.status = 200 /\ r.success /\ r.data # Null

\* C23: a submission whose eligibility lookup succeeded makes exactly one
\* savePatientSearch call (also when coverage and member card are absent), a
\* submission that fails validation, the token check or eligibility makes
\* none, and the only persistence call of the search flow is the insert.
C23_OneInsertPerSuccessfulEligibility ==
  /\ Cardinality(SaveCalls) <= 1
  /\ SaveCalls # {} => HasEvent(<<"elig", "lookup", "ok">>)
  /\ (pc = Idle /\ HasEvent(<<"elig", "lookup", "ok">>))
       => Cardinality(SaveCalls) = 1 /\ searchRecord # Null
  /\ (pc = Idle /\ ~HasEvent(<<"elig", "lookup", "ok">>))
       => SaveCalls = {} /\ searchRecord = Null
  /\ \A i \in Events :
       trace[i][1] = "save" => trace[i] \in {<<"save", "db", "send">>,
                                             <<"save", "db", "ok">>,
                                             <<"save", "db", "fail">>}

\* eligibility succeeded without a policy: no coverage, no member card, one save
C23_Witness ==
  /\ pc = Idle
  /\ HasEvent(<<"elig", "lookup", "ok">>)
  /\ ~Attempted("cov") /\ ~Attempted("card")
  /\ Cardinality(SaveCalls) = 1

\* a text of the form YYYY-MM-DD
IsIsoDate(s) ==
  /\ s.sep = "-" /\ Len(s.parts) = 3
  /\ Len(s.parts[1]) = 4 /\ Len(s.parts[2]) = 2 /\ Len(s.parts[3]) = 2

\* C24: for every date of birth the user can submit, the value sent to the
\* lookups is in YYYY-MM-DD form: MM/DD/YYYY is converted with month and day
\* zero-padded, and no other form reaches the lookups.
C24_SentDateIsIso ==
  dobSent # NoDob => IsIsoDate(dobSent)

SearchFailed == pc = Idle /\ trace # <<>> /\ error # NoMessage
ExactlyOneOutcome == (SearchCompleted /\ error = NoMessage) # (SearchFailed /\ completed = Null)

\* C25: when every network call eventually returns or fails, every submitted
\* search eventually reaches exactly one of Completed (onSearchComplete called)
\* and Failed (error set), and then the loading flag is false; no search stays
\* loading forever or reports both outcomes.
C25_SearchTerminates ==
  /\ [](pc = Idle => ~isLoading)
  /\ []((pc = Idle /\ trace # <<>>) => ExactlyOneOutcome)
  /\ (isLoading ~> (pc = Idle /\ ~isLoading /\ ExactlyOneOutcome))

C25_Witness ==
  /\ HasEvent(<<"search", "end", "failed">>)
  /\ HasEvent(<<"elig", "lookup", "fail">>)
  /\ SearchFailed /\ completed = Null /\ ~isLoading

\* the step handles a failure response of the lookup request of call
LookupFailsInStep(call) ==
  /\ pc = <<call, "lookup">>
  /\ Len(trace') > Len(trace)
  /\ trace'[Len(trace) + 1] = <<call, "lookup", "fail">>

\* C26: a failure response from a lookup (a 401 included) leaves the token
\* cache unchanged, and the next call sends the same token again as long as it
\* is valid under the skew rule and was not cleared.
C26_LookupFailureKeepsToken ==
  [][\A call \in LookupCalls :
       (LookupFailsInStep(call) /\ cache.token # 0)
         => /\ cache' = cache
            /\ SkewValid(cache.tokenExpires, now)
                 => /\ pc'[2] # "token"
                    /\ pc'[2] = "lookup" => lastReq'.token = cache.token
    ]_vars

\* the coverage lookup was answered 401 and the member-card lookup was sent
\* with the same token, without a token request
C26_Witness ==
  /\ pc = <<"card", "lookup">>
  /\ lastExt.net = "ok" /\ lastExt.status = 401
  /\ HasEvent(<<"cov", "lookup", "fail">>)
  /\ ~HasEvent(<<"card", "token", "send">>)
  /\ lastReq.call = "card" /\ lastReq.token = cache.token /\ cache.token # 0

\* token requests in flight: the one of a lookup call of the search and the
\* one of the Generate OAuth Token button
TokenRequestsInFlight ==
  (IF pc[2] = "token" THEN 1 ELSE 0) + (IF gen_pc = "wait" THEN 1 ELSE 0)

\* C27: at most one token acquisition request is in flight at any time, under
\* every interleaving of the user actions that can trigger one.
C27_AtMostOneAcquisitionInFlight == TokenRequestsInFlight <= 1

\* C28: once clearStoredToken has run the cache holds no token until an
\* acquisition started after the clear succeeds: the response of a token
\* request that was in flight when the token was cleared does not put a token
\* back into the cache.
C28_InFlightAcquisitionDoesNotRepopulate ==
  [][(gen_pc = "wait" /\ gen_pc' = "idle" /\ lastOp.op = "clear" /\ lastOp.ok)
       => cache'.token = 0 /\ cache'.ls_token = 0]_vars

\* C29: with a working storage the in-memory token and the persisted token
\* agree in every reachable state: a non-null in-memory token equals uhc_token
\* and its expiry is the instant in uhc_token_expires, and the in-memory token
\* and expiry are both null or both non-null.
C29_MemoryAndStorageAgree ==
  /\ cache.token # 0
       => /\ cache.ls_token = cache.token
          /\ cache.ls_expires # NoItem
          /\ ParseDate(cache.ls_expires) = cache.tokenExpires
  /\ (cache.token = 0) = (cache.tokenExpires = NullDate)

\* initializeAuth is done, no callback is owed and no signOut is in progress
AuthQuiescent ==
  /\ authView.init # "getSession" /\ ~authView.initialPending
  /\ authView.signIn = 0 /\ authView.signOut = "idle" /\ authView.mounted

\* C30: every change of AuthService's current user is followed by an
\* authStateChange event carrying the new user, so that once all events are
\* handled a component that initialised from getCurrentUser() and subscribed
\* holds the same user as the service.
C30_ListenersFollowCurrentUser ==
  AuthQuiescent => authView.guardUser = currentUser
====
